---- MODULE Spec2Model ----
(***************************************************************************)
(* Shipping-order comparator: the PdfUploader component (two document      *)
(* sessions plus one comparison state) and the three route handlers it     *)
(* calls (process-pdf, extract-invoice, compare-orders).                   *)
(*                                                                         *)
(* JSON bodies are records that carry a `keys` field: the set of members   *)
(* present in the object.  A member that is not in `keys` is undefined in  *)
(* the program; its record field then holds a filler of the right type.    *)
(* Confidence values are in hundredths (0.8 is 80, the interval [0,1] is   *)
(* 0..100).                                                                *)
(***************************************************************************)
EXTENDS Integers, Sequences, FiniteSets, TLC

\* ------------------------------------------------------------------ bounds

\* Pages of the largest PDF a user picks.
MaxPages == 3

\* processPdf invocations of one document that may await their answer at once.
MaxConversions == 2

\* ------------------------------------------------------------------ values

Docs == {1, 2}

PdfType == "application/pdf"

NoFile == [name |-> "", type |-> ""]

\* The files a user picks: a PDF of MaxPages pages, one of two pages, one of a
\* single page, and a file that is no PDF.
LongPdf == [name |-> "long.pdf", type |-> PdfType]

TwoPagePdf == [name |-> "two.pdf", type |-> PdfType]

OnePagePdf == [name |-> "one.pdf", type |-> PdfType]

TextFile == [name |-> "notes.txt", type |-> "text/plain"]

\* A PDF document that the form sends under another media type.
OctetStreamPdf == [name |-> "scan.pdf", type |-> "application/octet-stream"]

PageCount(file) ==
  IF file = LongPdf THEN MaxPages
  ELSE IF file = TwoPagePdf THEN 2
  ELSE 1

\* What the conversion service holds for page i of a file: its FileData.
FileData(file, i) == [file |-> file.name, page |-> i]

\* The FileData of an entry that has none (undefined).
NoPayload == [file |-> "", page |-> 0]

\* A structured record as the routes exchange it.  kind "null" is an absent
\* (undefined or null) value, "empty" is the object {}, "record" an object
\* with members, which here names the page it was read from.
NullRecord == [kind |-> "null", file |-> "", page |-> 0]

EmptyRecord == [kind |-> "empty", file |-> "", page |-> 0]

RecordOf(payload) == [kind |-> "record", file |-> payload.file, page |-> payload.page]

\* JavaScript truthiness of a structured value: undefined and null are falsy,
\* every object is truthy, the empty object included.
Truthy(v) == v.kind # "null"

\* What a route finds when it reads the body of its request.  For the two
\* routes that await request.formData() and take one entry of the form: the
\* entry is a file, the entry is a text field (a non-empty string), the form
\* has no such entry (get gives null), or the body is no form data and
\* formData() rejects.  For the route that awaits request.json(): the body
\* is a JSON value other than null, it is the JSON value null (json()
\* resolves to null, whose members cannot be read), or it is no JSON and
\* json() rejects.
FormFile == "file"

FormText == "text"

FormNone == "none"

BodyJson == "json"

BodyNull == "null"

BodyUnparsed == "unparsed"

\* ------------------------------------------------- route handler: process-pdf

ImageDataUrl(fileInfo) == [scheme |-> "data:image/jpeg;base64", payload |-> fileInfo.FileData]

\* Mutant: pages numbered with the 0-based loop index.
ServerPagesZeroBased(files) ==
  [i \in 1..Len(files) |->
     [pageNumber |-> i - 1, imageDataUrl |-> ImageDataUrl(files[i])]]

\* pageImages of the handler: one entry per element of result.Files, numbered
\* i + 1 for the 0-based index i.
ServerPages(files) ==
  [i \in 1..Len(files) |->
     [pageNumber |-> i, imageDataUrl |-> ImageDataUrl(files[i])]]

\* Answers of the conversion service for a file of n pages: the converted
\* files (with or without their data), a non-success status, a body without
\* a usable Files list, an empty Files list, or no answer at all (the fetch
\* rejects).
ConvertOk(file, n) ==
  [kind |-> "ok", Files |-> [i \in 1..n |-> [FileData |-> FileData(file, i)]]]

\* Converted files whose entries carry no FileData member: the route builds
\* "data:image/jpeg;base64,undefined" from them.
ConvertNoData(file, n) ==
  [kind |-> "ok", Files |-> [i \in 1..n |-> [FileData |-> NoPayload]]]

ConvertStatus == [kind |-> "status", Files |-> <<>>]

ConvertNoFiles == [kind |-> "nofiles", Files |-> <<>>]

ConvertNetwork == [kind |-> "network", Files |-> <<>>]

ConvertAnswers(file) ==
  {ConvertOk(file, PageCount(file)), ConvertOk(file, 0), ConvertNoData(file, PageCount(file)),
   ConvertStatus, ConvertNoFiles, ConvertNetwork}

PdfFailure(status, hasSuccess, msg) ==
  [status |-> status,
   outbound |-> 0,
   body |-> [keys |-> IF hasSuccess THEN {"success", "error"} ELSE {"error"},
             success |-> FALSE, pages |-> <<>>, totalPages |-> 0, error |-> msg]]

\* Mutant: a failed call to the conversion service is made once more before
\* the route gives up.
ProcessPdfPOSTRetrying(form, file, secret, up) ==
  LET caught(msg) == [PdfFailure(500, TRUE, msg) EXCEPT !.outbound = 2]
  IN  IF form = BodyUnparsed THEN PdfFailure(500, TRUE, "Failed to parse body as FormData")
      ELSE IF form = FormNone THEN PdfFailure(400, FALSE, "No PDF file provided")
      ELSE IF up.kind = "network" THEN caught("fetch failed")
      ELSE IF up.kind = "status" THEN caught("ConvertAPI error")
      ELSE IF up.kind = "nofiles" THEN caught("Cannot read properties of undefined")
      ELSE IF Len(up.Files) = 0 THEN caught("Cannot convert undefined or null to object")
      ELSE [status |-> 200,
            outbound |-> 1,
            body |-> [keys |-> {"success", "totalPages", "pages", "conversionInfo"},
                      success |-> TRUE,
                      pages |-> ServerPages(up.Files),
                      totalPages |-> Len(up.Files),
                      error |-> ""]]

\* POST /api/process-pdf.  form: what the body gives for its 'pdf' entry, file
\* the entry; secret: the configured CONVERTAPI_SECRET ("" when unset); up:
\* what the service answers.  outbound counts the calls made to the
\* conversion service.  A body that is no form data makes formData() reject
\* inside the try: the catch answers 500 before any call.
ProcessPdfPOST(form, file, secret, up) ==
  LET SECRET == IF secret # "" THEN secret ELSE "4FkbnBsk9bN53Gv5dtw4UmbuAIcGTg65"
      caught(msg) == [PdfFailure(500, TRUE, msg) EXCEPT !.outbound = 1]
  IN  IF form = BodyUnparsed THEN PdfFailure(500, TRUE, "Failed to parse body as FormData")
      ELSE IF form = FormNone THEN PdfFailure(400, FALSE, "No PDF file provided")
      ELSE IF SECRET = "" THEN PdfFailure(500, FALSE, "ConvertAPI secret is not configured")
      ELSE IF up.kind = "network" THEN caught("fetch failed")
      ELSE IF up.kind = "status" THEN caught("ConvertAPI error")
      ELSE IF up.kind = "nofiles" THEN caught("Cannot read properties of undefined")
      ELSE IF Len(up.Files) = 0 THEN caught("Cannot convert undefined or null to object")
      ELSE [status |-> 200,
            outbound |-> 1,
            body |-> [keys |-> {"success", "totalPages", "pages", "conversionInfo"},
                      success |-> TRUE,
                      pages |-> ServerPages(up.Files),
                      totalPages |-> Len(up.Files),
                      error |-> ""]]

\* --------------------------------------------- route handler: extract-invoice

\* Answers of the model behind the image extraction: a structured record read
\* from the image, or a failure of the call.
LlmExtractOk(image) == [kind |-> "ok", data |-> RecordOf(image.payload)]

LlmExtractFail == [kind |-> "error", data |-> NullRecord]

LlmExtractAnswers(image) == {LlmExtractOk(image), LlmExtractFail}

ExtractFailure(status, hasSuccess, msg) ==
  [status |-> status,
   outbound |-> 0,
   body |-> [keys |-> IF hasSuccess THEN {"success", "error"} ELSE {"error"},
             success |-> FALSE, data |-> NullRecord, error |-> msg]]

\* POST /api/extract-invoice (image).  key: OPENAI_API_KEY ("" when unset);
\* form: what the body gives for its 'image' entry, image the entry.  After
\* the key check, a body that is no form data makes formData() reject and an
\* entry that is a text field has no arrayBuffer(): both throw inside the try
\* before the model is called, and the catch answers 500.
ExtractImagePOST(key, form, image, llm) ==
  IF key = "" THEN ExtractFailure(500, FALSE, "OpenAI API key is not configured")
  ELSE IF form = BodyUnparsed THEN ExtractFailure(500, TRUE, "Failed to parse body as FormData")
  ELSE IF form = FormNone THEN ExtractFailure(400, FALSE, "No image file provided")
  ELSE IF form = FormText
    THEN ExtractFailure(500, TRUE, "imageFile.arrayBuffer is not a function")
  ELSE IF llm.kind # "ok"
    THEN [ExtractFailure(500, TRUE, "upstream error") EXCEPT !.outbound = 1]
  ELSE [status |-> 200,
        outbound |-> 1,
        body |-> [keys |-> {"success", "data", "extractedAt"},
                  success |-> TRUE, data |-> llm.data, error |-> ""]]

\* ------------------------------------ route handler: extract-invoice (text)

\* The JSON body of a request to the text extraction route, by its `text`
\* member: kind is the member's typeof ("undefined" when the body has none),
\* value its content as text.  kind "malformed" is a body that is no JSON,
\* kind "nullbody" the body null, which is JSON and has no members.
TextAbsent == [kind |-> "undefined", value |-> ""]

TextEmpty == [kind |-> "string", value |-> ""]

TextNumber == [kind |-> "number", value |-> "5"]

TextObject == [kind |-> "object", value |-> "{}"]

\* {"text": null}: typeof null is "object".
TextNull == [kind |-> "object", value |-> "null"]

TextFalse == [kind |-> "boolean", value |-> "false"]

InvoiceText == [kind |-> "string", value |-> "Racun 17/1/1"]

MalformedBody == [kind |-> "malformed", value |-> ""]

NullBody == [kind |-> "nullbody", value |-> "null"]

\* JavaScript truthiness of the text member: undefined, null, false, "", 0
\* and NaN are falsy, every other value is truthy.
TextTruthy(text) ==
  /\ text.kind # "undefined"
  /\ ~(text.kind = "object" /\ text.value = "null")
  /\ ~(text.kind = "boolean" /\ text.value = "false")
  /\ ~(text.kind = "string" /\ text.value = "")
  /\ ~(text.kind = "number" /\ text.value \in {"0", "-0", "NaN"})

\* Answers of the model behind the text extraction.
LlmTextOk(text) == [kind |-> "ok", data |-> [kind |-> "record", file |-> text.value, page |-> 0]]

LlmTextAnswers(text) == {LlmTextOk(text), LlmExtractFail}

\* Mutant: the type of the text member is not tested.
TextAcceptedAnyType(text) == TextTruthy(text)

\* The text the route goes on with: !(!text || typeof text !== 'string').
TextAccepted(text) == TextTruthy(text) /\ text.kind = "string"

\* POST of the text extraction route.  key: OPENAI_API_KEY ("" when unset).
ExtractTextPOST(key, text, llm) ==
  IF key = "" THEN ExtractFailure(500, FALSE, "OpenAI API key is not configured")
  ELSE IF text.kind = "malformed" THEN ExtractFailure(500, TRUE, "Unexpected token in JSON")
  ELSE IF text.kind = "nullbody"
    THEN ExtractFailure(500, TRUE, "Cannot destructure property 'text' of 'body' as it is null.")
  ELSE IF ~TextAccepted(text) THEN ExtractFailure(400, FALSE, "No text input provided")
  ELSE IF llm.kind # "ok"
    THEN [ExtractFailure(500, TRUE, "upstream error") EXCEPT !.outbound = 1]
  ELSE [status |-> 200,
        outbound |-> 1,
        body |-> [keys |-> {"success", "data", "extractedAt"},
                  success |-> TRUE, data |-> llm.data, error |-> ""]]

\* ---------------------------------------------- route handler: compare-orders

\* 0.8, in hundredths.
ManualReviewThreshold == 80

\* overall_confidence values the comparator answers with, in hundredths; the
\* schema admits 0..100.
Confidences == {0, 79, 80, 81, 100}

NoComparison ==
  [subject |-> <<NullRecord, NullRecord>>, overall_confidence |-> 0,
   recommendsReview |-> FALSE]

\* Answers of the comparator model.  subject stands for the discrepancies,
\* matches and summary, which the model derives from the two records of the
\* prompt; recommendsReview is whether its recommendation text asks for a
\* manual review.
LlmCompareOk(order1, order2, c, r) ==
  [kind |-> "ok",
   comparison |-> [subject |-> <<order1, order2>>, overall_confidence |-> c,
                   recommendsReview |-> r]]

LlmCompareFail == [kind |-> "error", comparison |-> NoComparison]

LlmCompareAnswers(order1, order2) ==
  {LlmCompareOk(order1, order2, c, r) : c \in Confidences, r \in BOOLEAN}
  \cup {LlmCompareFail}

CompareFailure(status, hasSuccess, msg) ==
  [status |-> status,
   outbound |-> 0,
   body |-> [keys |-> IF hasSuccess THEN {"success", "error"} ELSE {"error"},
             success |-> FALSE, comparison |-> NoComparison,
             needsManualReview |-> FALSE, error |-> msg]]

\* Mutant: a confidence of exactly 0.8 asks for a review too.
NeedsManualReviewInclusive(response) == response.overall_confidence <= ManualReviewThreshold

NeedsManualReview(response) == response.overall_confidence < ManualReviewThreshold

\* POST /api/compare-orders.  body: whether the request body is JSON; when it
\* is not, json() rejects after the key check and the catch answers 500.
CompareOrdersPOST(key, body, order1, order2, llm) ==
  IF key = "" THEN CompareFailure(500, FALSE, "OpenAI API key is not configured")
  ELSE IF body = BodyUnparsed THEN CompareFailure(500, TRUE, "Unexpected token in JSON")
  ELSE IF body = BodyNull
    THEN CompareFailure(500, TRUE, "Cannot destructure property 'order1' as it is null.")
  ELSE IF ~Truthy(order1) \/ ~Truthy(order2)
    THEN CompareFailure(400, FALSE, "Both order1 and order2 data are required")
  ELSE IF llm.kind # "ok"
    THEN [CompareFailure(500, TRUE, "upstream error") EXCEPT !.outbound = 1]
  ELSE [status |-> 200,
        outbound |-> 1,
        body |-> [keys |-> {"success", "comparison", "needsManualReview", "comparedAt"},
                  success |-> TRUE,
                  comparison |-> llm.comparison,
                  needsManualReview |-> NeedsManualReview(llm.comparison),
                  error |-> ""]]

\* ------------------------------------------------------- PdfUploader: state

VARIABLES
  pdf,               \* [Docs -> PdfData]: the pdf1 and pdf2 state slices
  conv,              \* [Docs -> Seq(File)]: processPdf invocations awaiting their answer
  run,               \* [Docs -> Run]: the processSelectedImages invocation in flight
  comparisonResult,  \* <<>> for null, <<body>> for a stored ComparisonResult
  comparing,         \* the comparing flag
  cmpCall,           \* the compareOrders invocation awaiting its answer
  alertMsg,          \* the alert() the last step showed, "" when it showed none
  apiReq,            \* a route handler on its own: the request it is given
  apiUp,             \* <<>> or <<what the external service answers when called>>
  apiResp            \* <<>> or <<the handler's response>>

api == <<apiReq, apiUp, apiResp>>

vars == <<pdf, conv, run, comparisonResult, comparing, cmpCall, alertMsg, api>>

\* The configuration the routes run under in the component's behaviours.
ServerEnv == [OPENAI_API_KEY |-> "sk-configured", CONVERTAPI_SECRET |-> ""]

EmptyPdfData ==
  [file |-> NoFile, pageImages |-> <<>>, loading |-> FALSE,
   extractedData |-> <<>>, processing |-> FALSE]

NoRun ==
  [active |-> FALSE, selectedImages |-> <<>>, results |-> <<>>, inflight |-> {},
   issued |-> <<>>]

\* replaces is history kept for the statements about re-comparison: whether a
\* result was stored when the invocation began.  No action reads it.
NoCmpCall ==
  [active |-> FALSE, order1 |-> NullRecord, order2 |-> NullRecord, replaces |-> FALSE]

NoApiReq ==
  [route |-> "none", key |-> "", body |-> FormNone, hasFile |-> FALSE, file |-> NoFile,
   order1 |-> NullRecord, order2 |-> NullRecord, text |-> TextAbsent]

\* pageImages.filter(img => img.selected)
SelectedImages(pdfData) == SelectSeq(pdfData.pageImages, LAMBDA img : img.selected)

\* result.success as a condition: the member is present and true.
IsSuccess(result) == "success" \in result.keys /\ result.success

\* extractedData.some(r => r.success)
HasSuccess(pdfData) ==
  \E i \in 1..Len(pdfData.extractedData) : IsSuccess(pdfData.extractedData[i])

\* Mutant: the record of the last successful result.
LastSuccessData(pdfData) ==
  LET ok == SelectSeq(pdfData.extractedData, IsSuccess)
  IN  IF ok = <<>> THEN NullRecord
      ELSE IF "data" \in ok[Len(ok)].keys THEN ok[Len(ok)].data ELSE NullRecord

\* extractedData.find(result => result.success)?.data
FirstSuccessData(pdfData) ==
  LET ok == SelectSeq(pdfData.extractedData, IsSuccess)
  IN  IF ok = <<>> THEN NullRecord
      ELSE IF "data" \in ok[1].keys THEN ok[1].data ELSE NullRecord

Init ==
  /\ pdf = [d \in Docs |-> EmptyPdfData]
  /\ conv = [d \in Docs |-> <<>>]
  /\ run = [d \in Docs |-> NoRun]
  /\ comparisonResult = <<>>
  /\ comparing = FALSE
  /\ cmpCall = NoCmpCall
  /\ alertMsg = ""
  /\ apiReq = NoApiReq
  /\ apiUp = <<>>
  /\ apiResp = <<>>

\* The texts of the component's alert() calls.
InvalidPdfAlert == "Please select a valid PDF file"

ProcessingErrorAlert == "Error processing PDF. Please try again."

NoPageSelectedAlert == "Please select at least one page to process"

NotReadyToCompareAlert ==
  "Please ensure both PDFs have been processed and have successful extractions before comparing."

\* ---------------------------------------------------- PdfUploader: processPdf

\* processPdf, rejected: the chosen file is no PDF.
processPdfRejected(d, f) ==
  /\ f.type # PdfType
  /\ alertMsg' = InvalidPdfAlert
  /\ UNCHANGED <<pdf, conv, run, comparisonResult, comparing, cmpCall, api>>

\* Mutant: a new file keeps the results extracted from the previous one.
processPdfKeepingResults(d, f) ==
  /\ f.type = PdfType
  /\ Len(conv[d]) < MaxConversions
  /\ pdf' = [pdf EXCEPT ![d] = [@ EXCEPT !.file = f, !.loading = TRUE,
                                         !.pageImages = <<>>]]
  /\ conv' = [conv EXCEPT ![d] = Append(@, f)]
  /\ alertMsg' = ""
  /\ UNCHANGED <<run, comparisonResult, comparing, cmpCall, api>>

\* Mutant: a new file resets the pages and results of both documents.
processPdfResettingBoth(d, f) ==
  /\ f.type = PdfType
  /\ Len(conv[d]) < MaxConversions
  /\ pdf' = [e \in Docs |->
               IF e = d
               THEN [pdf[e] EXCEPT !.file = f, !.loading = TRUE,
                                   !.pageImages = <<>>, !.extractedData = <<>>]
               ELSE [pdf[e] EXCEPT !.pageImages = <<>>, !.extractedData = <<>>]]
  /\ conv' = [conv EXCEPT ![d] = Append(@, f)]
  /\ alertMsg' = ""
  /\ UNCHANGED <<run, comparisonResult, comparing, cmpCall, api>>

\* processPdf up to its await: the session is reset for the new file and the
\* upload is issued.
\* Mutant: the type of the selected file is not examined.
processPdfAnyType(d, f) ==
  /\ Len(conv[d]) < MaxConversions
  /\ pdf' = [pdf EXCEPT ![d] = [@ EXCEPT !.file = f, !.loading = TRUE,
                                         !.pageImages = <<>>, !.extractedData = <<>>]]
  /\ conv' = [conv EXCEPT ![d] = Append(@, f)]
  /\ alertMsg' = ""
  /\ UNCHANGED <<run, comparisonResult, comparing, cmpCall, api>>

\* Mutant: selecting a file also discards the comparison outcome.
processPdfClearingComparison(d, f) ==
  /\ f.type = PdfType
  /\ Len(conv[d]) < MaxConversions
  /\ pdf' = [pdf EXCEPT ![d] = [@ EXCEPT !.file = f, !.loading = TRUE,
                                         !.pageImages = <<>>, !.extractedData = <<>>]]
  /\ conv' = [conv EXCEPT ![d] = Append(@, f)]
  /\ alertMsg' = ""
  /\ comparisonResult' = <<>>
  /\ UNCHANGED <<run, comparing, cmpCall, api>>

processPdf(d, f) ==
  /\ f.type = PdfType
  /\ Len(conv[d]) < MaxConversions
  /\ pdf' = [pdf EXCEPT ![d] = [@ EXCEPT !.file = f, !.loading = TRUE,
                                         !.pageImages = <<>>, !.extractedData = <<>>]]
  /\ conv' = [conv EXCEPT ![d] = Append(@, f)]
  /\ alertMsg' = ""
  /\ UNCHANGED <<run, comparisonResult, comparing, cmpCall, api>>

\* Mutant: the first returned page arrives selected.
ClientImagesFirstSelected(pages) ==
  [i \in 1..Len(pages) |->
     [pageNumber |-> pages[i].pageNumber, imageDataUrl |-> pages[i].imageDataUrl,
      selected |-> (i = 1)]]

\* Mutant: the pages are numbered with the 0-based index of map.
ClientImagesByIndex(pages) ==
  [i \in 1..Len(pages) |->
     [pageNumber |-> i - 1, imageDataUrl |-> pages[i].imageDataUrl,
      selected |-> FALSE]]

\* result.pages.map(...): the component's PageImage of each returned page.
ClientImages(pages) ==
  [i \in 1..Len(pages) |->
     [pageNumber |-> pages[i].pageNumber, imageDataUrl |-> pages[i].imageDataUrl,
      selected |-> FALSE]]

RemoveAt(s, k) == SubSeq(s, 1, k - 1) \o SubSeq(s, k + 1, Len(s))

\* What the k-th awaiting upload of document d may come back with.
ProcessPdfOutcomes(file) ==
  {[rejected |-> FALSE, body |-> ProcessPdfPOST(FormFile, file, ServerEnv.CONVERTAPI_SECRET, up).body] :
     up \in ConvertAnswers(file)}
  \cup {[rejected |-> TRUE, body |-> PdfFailure(0, FALSE, "").body]}

\* What processPdf reads of an answer: whether the call came back with
\* result.success set, and then result.pages.
ProcessPdfResults(file) ==
  {IF ~out.rejected /\ IsSuccess(out.body)
   THEN [success |-> TRUE, pages |-> out.body.pages]
   ELSE [success |-> FALSE, pages |-> <<>>] : out \in ProcessPdfOutcomes(file)}

\* Mutant: the catch block shows the alert and leaves loading set.
processPdfAnswerLeavingLoading(d, k) ==
  /\ k \in 1..Len(conv[d])
  /\ \E result \in ProcessPdfResults(conv[d][k]) :
       IF result.success
       THEN /\ pdf' = [pdf EXCEPT ![d] = [@ EXCEPT !.pageImages = ClientImages(result.pages),
                                                  !.loading = FALSE]]
            /\ alertMsg' = ""
       ELSE /\ pdf' = pdf
            /\ alertMsg' = ProcessingErrorAlert
  /\ conv' = [conv EXCEPT ![d] = RemoveAt(@, k)]
  /\ UNCHANGED <<run, comparisonResult, comparing, cmpCall, api>>

\* processPdf after its await: the answer of the k-th awaiting upload arrives.
processPdfAnswer(d, k) ==
  /\ k \in 1..Len(conv[d])
  /\ \E result \in ProcessPdfResults(conv[d][k]) :
       IF result.success
       THEN /\ pdf' = [pdf EXCEPT ![d] = [@ EXCEPT !.pageImages = ClientImages(result.pages),
                                                  !.loading = FALSE]]
            /\ alertMsg' = ""
       ELSE /\ pdf' = [pdf EXCEPT ![d] = [@ EXCEPT !.loading = FALSE]]
            /\ alertMsg' = ProcessingErrorAlert
  /\ conv' = [conv EXCEPT ![d] = RemoveAt(@, k)]
  /\ UNCHANGED <<run, comparisonResult, comparing, cmpCall, api>>

\* ------------------------------------------------ PdfUploader: page selection

PageNumbers(pdfData) == {pdfData.pageImages[i].pageNumber : i \in 1..Len(pdfData.pageImages)}

\* Mutant: clicking a page selects it and deselects every other page.
TogglePagesExclusive(pageImages, pageNumber) ==
  [i \in 1..Len(pageImages) |->
     [pageImages[i] EXCEPT !.selected = (pageImages[i].pageNumber = pageNumber)]]

TogglePages(pageImages, pageNumber) ==
  [i \in 1..Len(pageImages) |->
     IF pageImages[i].pageNumber = pageNumber
     THEN [pageImages[i] EXCEPT !.selected = ~@]
     ELSE pageImages[i]]

SetAllPages(pageImages, value) ==
  [i \in 1..Len(pageImages) |-> [pageImages[i] EXCEPT !.selected = value]]

\* A click on the thumbnail of page pageNumber.
togglePageSelection(d, pageNumber) ==
  /\ pageNumber \in PageNumbers(pdf[d])
  /\ pdf' = [pdf EXCEPT ![d].pageImages = TogglePages(@, pageNumber)]
  /\ alertMsg' = ""
  /\ UNCHANGED <<conv, run, comparisonResult, comparing, cmpCall, api>>

\* The Select All and None buttons, shown while the document has pages.
selectAllPages(d) ==
  /\ Len(pdf[d].pageImages) > 0
  /\ pdf' = [pdf EXCEPT ![d].pageImages = SetAllPages(@, TRUE)]
  /\ alertMsg' = ""
  /\ UNCHANGED <<conv, run, comparisonResult, comparing, cmpCall, api>>

\* Mutant: the None button also drops the extraction results.
deselectAllPagesClearingResults(d) ==
  /\ Len(pdf[d].pageImages) > 0
  /\ pdf' = [pdf EXCEPT ![d] = [@ EXCEPT !.pageImages = SetAllPages(@, FALSE),
                                         !.extractedData = <<>>]]
  /\ alertMsg' = ""
  /\ UNCHANGED <<conv, run, comparisonResult, comparing, cmpCall, api>>

deselectAllPages(d) ==
  /\ Len(pdf[d].pageImages) > 0
  /\ pdf' = [pdf EXCEPT ![d].pageImages = SetAllPages(@, FALSE)]
  /\ alertMsg' = ""
  /\ UNCHANGED <<conv, run, comparisonResult, comparing, cmpCall, api>>

\* ----------------------------------------- PdfUploader: processSelectedImages

\* Mutant: the Extract button stays enabled while the document is processing.
ExtractEnabledWhileProcessing(pdfData) ==
  /\ Len(pdfData.pageImages) > 0
  /\ SelectedImages(pdfData) # <<>>

\* The Extract button is shown while the document has pages and is disabled
\* while the document is processing or has no page selected.
ExtractEnabled(pdfData) ==
  /\ Len(pdfData.pageImages) > 0
  /\ ~pdfData.processing
  /\ SelectedImages(pdfData) # <<>>

\* Mutant: the early return drops the stored results.
processSelectedImagesClearing(d) ==
  /\ Len(SelectedImages(pdf[d])) = 0
  /\ pdf' = [pdf EXCEPT ![d].extractedData = <<>>]
  /\ alertMsg' = NoPageSelectedAlert
  /\ UNCHANGED <<conv, run, comparisonResult, comparing, cmpCall, api>>

\* processSelectedImages called with no page selected: the early return.  The
\* button is disabled then, so this is the handler called past the button.
processSelectedImagesRejected(d) ==
  /\ Len(SelectedImages(pdf[d])) = 0
  /\ alertMsg' = NoPageSelectedAlert
  /\ UNCHANGED <<pdf, conv, run, comparisonResult, comparing, cmpCall, api>>

\* processSelectedImages up to the first await of its loop.
processSelectedImages(d) ==
  /\ ExtractEnabled(pdf[d])
  /\ Len(SelectedImages(pdf[d])) # 0
  /\ pdf' = [pdf EXCEPT ![d].processing = TRUE]
  /\ run' = [run EXCEPT ![d] = [active |-> TRUE,
                                selectedImages |-> SelectedImages(pdf[d]),
                                results |-> <<>>,
                                inflight |-> {},
                                issued |-> <<>>]]
  /\ alertMsg' = ""
  /\ UNCHANGED <<conv, comparisonResult, comparing, cmpCall, api>>

\* Mutant: the calls for all remaining images are issued at once.
ImagesToSubmitAll(r) == SubSeq(r.selectedImages, Len(r.results) + 1, Len(r.selectedImages))

\* The images the loop submits in its next iteration: for...of takes the
\* selected images one by one, in array order.
ImagesToSubmit(r) == <<r.selectedImages[Len(r.results) + 1]>>

IsAscending(s) == \A i \in 1..Len(s) : \A j \in 1..Len(s) : i < j => s[i] < s[j]

PageNumbersOf(images) == [i \in 1..Len(images) |-> images[i].pageNumber]

SeqRange(s) == {s[i] : i \in 1..Len(s)}

\* What the call for an image may come back with: the route's body, or a
\* rejected fetch.
ExtractOutcomes(imageData) ==
  {[rejected |-> FALSE,
    body |-> ExtractImagePOST(ServerEnv.OPENAI_API_KEY, FormFile, imageData.imageDataUrl, llm).body] :
     llm \in LlmExtractAnswers(imageData.imageDataUrl)}
  \cup {[rejected |-> TRUE, body |-> ExtractFailure(0, FALSE, "").body]}

\* The entry the catch block pushes for a page.
CatchEntry(pageNumber) ==
  [keys |-> {"success", "error", "pageNumber"}, success |-> FALSE,
   data |-> NullRecord, error |-> "Failed to process page", pageNumber |-> pageNumber]

\* Mutant: the catch block's entry carries no page number.
ResultEntryUntagged(out, pageNumber) ==
  IF out.rejected
  THEN [keys |-> {"success", "error"}, success |-> FALSE,
        data |-> NullRecord, error |-> "Failed to process page", pageNumber |-> 0]
  ELSE [keys |-> out.body.keys \cup {"pageNumber"}, success |-> out.body.success,
        data |-> out.body.data, error |-> out.body.error, pageNumber |-> pageNumber]

\* The entry pushed for a page: {...result, pageNumber} of the route's answer,
\* or the catch block's failure entry.
ResultEntry(out, pageNumber) ==
  IF out.rejected
  THEN CatchEntry(pageNumber)
  ELSE [keys |-> out.body.keys \cup {"pageNumber"}, success |-> out.body.success,
        data |-> out.body.data, error |-> out.body.error, pageNumber |-> pageNumber]

\* Mutant: a failed page ends the loop.
LoopDoneOnFailure(r, results) ==
  \/ Len(results) = Len(r.selectedImages)
  \/ ~IsSuccess(results[Len(results)])

\* The loop goes on to the next image whatever the entry just pushed.
LoopDone(r, results) == Len(results) = Len(r.selectedImages)

\* Reading a page's data URL into a blob (fetch, then blob()): TRUE when the
\* read resolves, FALSE when it rejects.  A URL without image data cannot be
\* read; any other read may fail as well.
DataUrlReads(imageData) ==
  IF imageData.imageDataUrl.payload = NoPayload THEN {FALSE} ELSE {TRUE, FALSE}

\* One iteration up to its await on the route: the page's blob is read from
\* its data URL and the call to /api/extract-invoice is issued.  When the read
\* rejects, the catch block pushes the page's failure entry and no call is
\* issued; after the last image the results are stored and processing ends.
extractSubmit(d) ==
  /\ run[d].active
  /\ run[d].inflight = {}
  /\ Len(run[d].results) < Len(run[d].selectedImages)
  /\ LET imageData == run[d].selectedImages[Len(run[d].results) + 1]
     IN  \E read \in DataUrlReads(imageData) :
           IF read
           THEN /\ run' = [run EXCEPT
                             ![d].inflight = SeqRange(PageNumbersOf(ImagesToSubmit(run[d]))),
                             ![d].issued = @ \o PageNumbersOf(ImagesToSubmit(run[d]))]
                /\ UNCHANGED pdf
           ELSE LET results == Append(run[d].results, CatchEntry(imageData.pageNumber))
                IN  IF LoopDone(run[d], results)
                    THEN /\ pdf' = [pdf EXCEPT ![d] = [@ EXCEPT !.extractedData = results,
                                                               !.processing = FALSE]]
                         /\ run' = [run EXCEPT ![d] = NoRun]
                    ELSE /\ run' = [run EXCEPT ![d].results = results]
                         /\ UNCHANGED pdf
  /\ alertMsg' = ""
  /\ UNCHANGED <<conv, comparisonResult, comparing, cmpCall, api>>

\* Mutant: the results of the run are appended to those already stored.
extractAnswerMerging(d) ==
  /\ run[d].active
  /\ run[d].inflight # {}
  /\ LET imageData == run[d].selectedImages[Len(run[d].results) + 1]
     IN  \E out \in ExtractOutcomes(imageData) :
           LET results == Append(run[d].results, ResultEntry(out, imageData.pageNumber))
           IN  IF LoopDone(run[d], results)
               THEN /\ pdf' = [pdf EXCEPT ![d] = [@ EXCEPT !.extractedData = @ \o results,
                                                          !.processing = FALSE]]
                    /\ run' = [run EXCEPT ![d] = NoRun]
               ELSE /\ run' = [run EXCEPT ![d].results = results,
                                          ![d].inflight = @ \ {imageData.pageNumber}]
                    /\ UNCHANGED pdf
  /\ alertMsg' = ""
  /\ UNCHANGED <<conv, comparisonResult, comparing, cmpCall, api>>

\* The awaited call of the current iteration comes back: its entry is pushed;
\* after the last image the results are stored and processing ends.
extractAnswer(d) ==
  /\ run[d].active
  /\ run[d].inflight # {}
  /\ LET imageData == run[d].selectedImages[Len(run[d].results) + 1]
     IN  \E out \in ExtractOutcomes(imageData) :
           LET results == Append(run[d].results, ResultEntry(out, imageData.pageNumber))
           IN  IF LoopDone(run[d], results)
               THEN /\ pdf' = [pdf EXCEPT ![d] = [@ EXCEPT !.extractedData = results,
                                                          !.processing = FALSE]]
                    /\ run' = [run EXCEPT ![d] = NoRun]
               ELSE /\ run' = [run EXCEPT ![d].results = results,
                                          ![d].inflight = @ \ {imageData.pageNumber}]
                    /\ UNCHANGED pdf
  /\ alertMsg' = ""
  /\ UNCHANGED <<conv, comparisonResult, comparing, cmpCall, api>>

\* ------------------------------------------------- PdfUploader: compareOrders

\* The Compare Orders button is shown while both documents hold a successful
\* extraction and is disabled while comparing.
CompareEnabled ==
  /\ HasSuccess(pdf[1])
  /\ HasSuccess(pdf[2])
  /\ ~comparing

\* Mutant: the early return drops the stored comparison.
compareOrdersRejectedClearing ==
  /\ ~Truthy(FirstSuccessData(pdf[1])) \/ ~Truthy(FirstSuccessData(pdf[2]))
  /\ comparisonResult' = <<>>
  /\ alertMsg' = NotReadyToCompareAlert
  /\ UNCHANGED <<pdf, conv, run, comparing, cmpCall, api>>

\* compareOrders with a record missing: the early return.  The comparison
\* section is not shown then, so this is the handler called past the button.
compareOrdersRejected ==
  /\ ~Truthy(FirstSuccessData(pdf[1])) \/ ~Truthy(FirstSuccessData(pdf[2]))
  /\ alertMsg' = NotReadyToCompareAlert
  /\ UNCHANGED <<pdf, conv, run, comparisonResult, comparing, cmpCall, api>>

\* Mutant: the previous result is not cleared.
compareOrdersKeepingResult ==
  /\ CompareEnabled
  /\ LET order1Data == FirstSuccessData(pdf[1])
         order2Data == FirstSuccessData(pdf[2])
     IN  /\ Truthy(order1Data) /\ Truthy(order2Data)
         /\ cmpCall' = [active |-> TRUE, order1 |-> order1Data, order2 |-> order2Data,
                         replaces |-> comparisonResult # <<>>]
  /\ comparing' = TRUE
  /\ alertMsg' = ""
  /\ UNCHANGED <<pdf, conv, run, comparisonResult, api>>

\* compareOrders up to its await.
compareOrders ==
  /\ CompareEnabled
  /\ LET order1Data == FirstSuccessData(pdf[1])
         order2Data == FirstSuccessData(pdf[2])
     IN  /\ Truthy(order1Data) /\ Truthy(order2Data)
         /\ cmpCall' = [active |-> TRUE, order1 |-> order1Data, order2 |-> order2Data,
                         replaces |-> comparisonResult # <<>>]
  /\ comparing' = TRUE
  /\ comparisonResult' = <<>>
  /\ alertMsg' = ""
  /\ UNCHANGED <<pdf, conv, run, api>>

\* The comparator's answers in the component's behaviours: a comparison of
\* the two records, or a failure.
ComponentCompareAnswers(order1, order2) ==
  {LlmCompareOk(order1, order2, ManualReviewThreshold - 1, TRUE), LlmCompareFail}

CompareOutcomes(order1, order2) ==
  {[rejected |-> FALSE,
    body |-> CompareOrdersPOST(ServerEnv.OPENAI_API_KEY, BodyJson, order1, order2, llm).body] :
     llm \in ComponentCompareAnswers(order1, order2)}
  \cup {[rejected |-> TRUE, body |-> CompareFailure(0, FALSE, "").body]}

\* What setComparisonResult receives: the route's body, or the catch block's
\* failure.
ComparisonOutcome(out) ==
  IF out.rejected
  THEN [CompareFailure(0, TRUE, "Failed to compare orders. Please try again.").body
          EXCEPT !.keys = {"success", "error"}]
  ELSE out.body

\* Mutant: the records are read from the sessions when the answer arrives.
compareOrdersAnswerLateRead ==
  /\ cmpCall.active
  /\ \E out \in CompareOutcomes(FirstSuccessData(pdf[1]), FirstSuccessData(pdf[2])) :
       comparisonResult' = <<ComparisonOutcome(out)>>
  /\ comparing' = FALSE
  /\ cmpCall' = NoCmpCall
  /\ alertMsg' = ""
  /\ UNCHANGED <<pdf, conv, run, api>>

\* compareOrders after its await: the answer arrives, then finally.
compareOrdersAnswer ==
  /\ cmpCall.active
  /\ \E out \in CompareOutcomes(cmpCall.order1, cmpCall.order2) :
       comparisonResult' = <<ComparisonOutcome(out)>>
  /\ comparing' = FALSE
  /\ cmpCall' = NoCmpCall
  /\ alertMsg' = ""
  /\ UNCHANGED <<pdf, conv, run, api>>

\* ------------------------------------------------------------ specification

\* The whole component: both documents and the comparison.  Each document
\* takes the one-page PDF, also while earlier uploads of it await their
\* answer.  The early returns of processPdf and processSelectedImages, which
\* change no state, are left to the specification of one document below.
ComponentFiles(d) == {OnePagePdf}

Next ==
  \/ \E d \in Docs : \E f \in ComponentFiles(d) : processPdf(d, f)
  \/ \E d \in Docs, k \in 1..MaxConversions : processPdfAnswer(d, k)
  \/ \E d \in Docs, n \in 1..PageCount(OnePagePdf) : togglePageSelection(d, n)
  \/ \E d \in Docs : selectAllPages(d)
  \/ \E d \in Docs : deselectAllPages(d)
  \/ \E d \in Docs : processSelectedImages(d)
  \/ \E d \in Docs : extractSubmit(d)
  \/ \E d \in Docs : extractAnswer(d)
  \/ compareOrdersRejected
  \/ compareOrders
  \/ compareOrdersAnswer

Spec == Init /\ [][Next]_vars

\* One document session on its own: document 1 takes the long or the one-page
\* PDF, also while earlier uploads await their answer; document 2 is left
\* alone.
DocFiles == {LongPdf, OnePagePdf}

NextDoc ==
  \/ \E f \in DocFiles : processPdf(1, f)
  \/ \E k \in 1..MaxConversions : processPdfAnswer(1, k)
  \/ \E n \in 1..MaxPages : togglePageSelection(1, n)
  \/ selectAllPages(1)
  \/ deselectAllPages(1)
  \/ processSelectedImagesRejected(1)
  \/ processSelectedImages(1)
  \/ extractSubmit(1)
  \/ extractAnswer(1)

SpecDoc == Init /\ [][NextDoc]_vars

\* The uploads of one document: document 1 takes the two-page PDF, the one-page
\* PDF or the text file, and a file may be picked while up to MaxConversions
\* earlier uploads still await their answer, which arrive in any order.
UploadFiles == {TwoPagePdf, OnePagePdf, TextFile}

NextUpload ==
  \/ \E f \in UploadFiles : processPdfRejected(1, f)
  \/ \E f \in UploadFiles : processPdf(1, f)
  \/ \E k \in 1..MaxConversions : processPdfAnswer(1, k)
  \/ \E n \in 1..PageCount(TwoPagePdf) : togglePageSelection(1, n)
  \/ selectAllPages(1)
  \/ deselectAllPages(1)
  \/ processSelectedImagesRejected(1)
  \/ processSelectedImages(1)
  \/ extractSubmit(1)
  \/ extractAnswer(1)

SpecUpload == Init /\ [][NextUpload]_vars

\* compareOrders on its own, as a function of the two result lists it reads.
\* Each document holds the two-page PDF, its pages, and any result list a
\* finished run over some of the pages can have stored: one entry per page of
\* an ascending selection, each a success, a failure answer of the route or
\* the catch block's entry.
ShownPages(file) == ClientImages(ServerPages(ConvertOk(file, PageCount(file)).Files))

EntryChoices(file, n) ==
  {ResultEntry(out, n) : out \in ExtractOutcomes(ShownPages(file)[n])}

AscendingSelections(n) ==
  {p \in UNION {[1..k -> 1..n] : k \in 0..n} : IsAscending(p)}

StoredResults(file) ==
  UNION {{r \in [1..Len(p) -> UNION {EntryChoices(file, n) : n \in 1..PageCount(file)}] :
            \A i \in 1..Len(p) : r[i] \in EntryChoices(file, p[i])} :
         p \in AscendingSelections(PageCount(file))}

\* The sessions a document can have come to rest in after runs on a file.
SessionsAtRest(file) ==
  {[file |-> file, pageImages |-> ShownPages(file), loading |-> FALSE,
    extractedData |-> r, processing |-> FALSE] : r \in StoredResults(file)}

InitCompare ==
  /\ pdf \in [Docs -> SessionsAtRest(TwoPagePdf)]
  /\ conv = [d \in Docs |-> <<>>]
  /\ run = [d \in Docs |-> NoRun]
  /\ comparisonResult = <<>>
  /\ comparing = FALSE
  /\ cmpCall = NoCmpCall
  /\ alertMsg = ""
  /\ apiReq = NoApiReq
  /\ apiUp = <<>>
  /\ apiResp = <<>>

NextCompare ==
  \/ compareOrdersRejected
  \/ compareOrders
  \/ compareOrdersAnswer

SpecCompare == InitCompare /\ [][NextCompare]_vars

\* Every call that was issued comes back (with an answer or a failure) and a
\* continuation that can run does run: weak fairness of the steps that follow
\* an await.  For the uploads of a document this asks only that, while some
\* are awaited, one of them is answered.
CallsReturn ==
  /\ \A d \in Docs : WF_vars(\E k \in 1..MaxConversions : processPdfAnswer(d, k))
  /\ \A d \in Docs : WF_vars(extractSubmit(d) \/ extractAnswer(d))
  /\ WF_vars(compareOrdersAnswer)

\* The component under that assumption: both documents and the comparison,
\* with every step the page offers through its controls.  The Compare Orders
\* button is shown only while both documents hold a record, so the early
\* return of compareOrders, which changes no state, is left to Spec.
NextLive ==
  \/ \E d \in Docs : \E f \in ComponentFiles(d) : processPdf(d, f)
  \/ \E d \in Docs, k \in 1..MaxConversions : processPdfAnswer(d, k)
  \/ \E d \in Docs, n \in 1..PageCount(OnePagePdf) : togglePageSelection(d, n)
  \/ \E d \in Docs : selectAllPages(d)
  \/ \E d \in Docs : deselectAllPages(d)
  \/ \E d \in Docs : processSelectedImages(d)
  \/ \E d \in Docs : extractSubmit(d)
  \/ \E d \in Docs : extractAnswer(d)
  \/ compareOrders
  \/ compareOrdersAnswer

SpecLive == Init /\ [][NextLive]_vars /\ CallsReturn

\* ------------------------------------------------ the route handlers alone

\* Requests a route may be given.  key is the credential of the configuration
\* the route runs under ("" when unset): CONVERTAPI_SECRET for process-pdf,
\* OPENAI_API_KEY for the others.  body is what the route finds when it reads
\* the request body; hasFile says that the entry it takes is a file, and a
\* body that does not parse carries no file and no records.
ApiKeys == {"", "configured"}

ApiFiles == {LongPdf, TwoPagePdf, OnePagePdf, OctetStreamPdf}

ApiRecords ==
  {NullRecord, EmptyRecord, RecordOf(FileData(TwoPagePdf, 1)), RecordOf(FileData(OnePagePdf, 1))}

ProcessPdfRequests ==
  {[NoApiReq EXCEPT !.route = "process-pdf", !.key = k, !.body = FormFile,
                    !.hasFile = TRUE, !.file = f] :
     k \in ApiKeys, f \in ApiFiles}
  \cup {[NoApiReq EXCEPT !.route = "process-pdf", !.key = k, !.body = b] :
          k \in ApiKeys, b \in {FormNone, BodyUnparsed}}

ExtractImageRequests ==
  {[NoApiReq EXCEPT !.route = "extract-invoice", !.key = k, !.body = FormFile,
                    !.hasFile = TRUE, !.file = f] :
     k \in ApiKeys, f \in {OnePagePdf, TwoPagePdf}}
  \cup {[NoApiReq EXCEPT !.route = "extract-invoice", !.key = k, !.body = b] :
          k \in ApiKeys, b \in {FormNone, FormText, BodyUnparsed}}

ApiTexts ==
  {TextAbsent, TextEmpty, TextNumber, TextObject, TextNull, TextFalse, InvoiceText,
   MalformedBody, NullBody}

ExtractTextRequests ==
  {[NoApiReq EXCEPT !.route = "extract-text", !.key = k, !.text = t] :
     k \in ApiKeys, t \in ApiTexts}

CompareOrdersRequests ==
  {[NoApiReq EXCEPT !.route = "compare-orders", !.key = k, !.body = BodyJson,
                    !.order1 = o1, !.order2 = o2] :
     k \in ApiKeys, o1 \in ApiRecords, o2 \in ApiRecords}
  \cup {[NoApiReq EXCEPT !.route = "compare-orders", !.key = k, !.body = b] :
          k \in ApiKeys, b \in {BodyNull, BodyUnparsed}}

InitApi ==
  /\ pdf = [d \in Docs |-> EmptyPdfData]
  /\ conv = [d \in Docs |-> <<>>]
  /\ run = [d \in Docs |-> NoRun]
  /\ comparisonResult = <<>>
  /\ comparing = FALSE
  /\ cmpCall = NoCmpCall
  /\ alertMsg = ""
  /\ apiReq \in ProcessPdfRequests \cup ExtractImageRequests \cup ExtractTextRequests
                \cup CompareOrdersRequests
  /\ apiUp = <<>>
  /\ apiResp = <<>>

\* The image a request to extract-invoice carries: page 1 of its file.
ApiImage(req) == ImageDataUrl([FileData |-> FileData(req.file, 1)])

handleProcessPdf ==
  /\ apiReq.route = "process-pdf"
  /\ apiResp = <<>>
  /\ \E up \in ConvertAnswers(apiReq.file) :
       /\ apiUp' = <<up>>
       /\ apiResp' = <<ProcessPdfPOST(apiReq.body, apiReq.file, apiReq.key, up)>>
  /\ UNCHANGED <<pdf, conv, run, comparisonResult, comparing, cmpCall, alertMsg, apiReq>>

handleExtractImage ==
  /\ apiReq.route = "extract-invoice"
  /\ apiResp = <<>>
  /\ \E llm \in LlmExtractAnswers(ApiImage(apiReq)) :
       /\ apiUp' = <<llm>>
       /\ apiResp' = <<ExtractImagePOST(apiReq.key, apiReq.body, ApiImage(apiReq), llm)>>
  /\ UNCHANGED <<pdf, conv, run, comparisonResult, comparing, cmpCall, alertMsg, apiReq>>

handleExtractText ==
  /\ apiReq.route = "extract-text"
  /\ apiResp = <<>>
  /\ \E llm \in LlmTextAnswers(apiReq.text) :
       /\ apiUp' = <<llm>>
       /\ apiResp' = <<ExtractTextPOST(apiReq.key, apiReq.text, llm)>>
  /\ UNCHANGED <<pdf, conv, run, comparisonResult, comparing, cmpCall, alertMsg, apiReq>>

handleCompareOrders ==
  /\ apiReq.route = "compare-orders"
  /\ apiResp = <<>>
  /\ \E llm \in LlmCompareAnswers(apiReq.order1, apiReq.order2) :
       /\ apiUp' = <<llm>>
       /\ apiResp' = <<CompareOrdersPOST(apiReq.key, apiReq.body, apiReq.order1, apiReq.order2, llm)>>
  /\ UNCHANGED <<pdf, conv, run, comparisonResult, comparing, cmpCall, alertMsg, apiReq>>

NextApi ==
  \/ handleProcessPdf
  \/ handleExtractImage
  \/ handleExtractText
  \/ handleCompareOrders

SpecApi == InitApi /\ [][NextApi]_vars

\* ------------------------------------------------------------------ claims

\* C1: processSelectedImages on a document with no page selected starts no run
\* and issues no extraction call, and the step that shows its message leaves
\* every document session (results, pages, loading, processing), every run
\* and every awaiting call as they were.
C1_NoSelectionNoChange ==
  [][/\ alertMsg' = NoPageSelectedAlert =>
          /\ \E d \in Docs : Len(SelectedImages(pdf[d])) = 0
          /\ UNCHANGED <<pdf, conv, run, comparisonResult, comparing, cmpCall>>
     /\ \A d \in Docs :
          Len(SelectedImages(pdf[d])) = 0 =>
            /\ run'[d].active => run[d].active
            /\ pdf'[d].processing => pdf[d].processing]_vars

\* The message was shown for a document that holds results and has no page
\* selected.
C1_Witness ==
  /\ alertMsg = NoPageSelectedAlert
  /\ Len(pdf[1].pageImages) > 0
  /\ Len(SelectedImages(pdf[1])) = 0
  /\ Len(pdf[1].extractedData) > 0

\* C2: a run takes the pages selected when it is triggered, keeps that list to
\* its end, and when it ends the stored results hold exactly one entry per page
\* of the list, in page order, each tagged with its page number.
C2_OneEntryPerSelectedPage ==
  [][\A d \in Docs :
       /\ (~run[d].active /\ run'[d].active) =>
            run'[d].selectedImages = SelectSeq(pdf[d].pageImages, LAMBDA img : img.selected)
       /\ (run[d].active /\ run'[d].active) =>
            run'[d].selectedImages = run[d].selectedImages
       /\ (run[d].active /\ ~run'[d].active) =>
            LET sel == run[d].selectedImages
                res == pdf'[d].extractedData
            IN  /\ Len(res) = Len(sel)
                /\ \A i \in 1..Len(res) :
                     /\ "pageNumber" \in res[i].keys
                     /\ res[i].pageNumber = sel[i].pageNumber
                /\ IsAscending([i \in 1..Len(res) |-> res[i].pageNumber])]_vars

\* A finished run over pages 1 and 3 of three, the first failed by a rejected
\* call and the second successful, with a selection that is no longer the one
\* extracted.
C2_Witness ==
  /\ ~pdf[1].processing
  /\ Len(pdf[1].pageImages) = 3
  /\ Len(pdf[1].extractedData) = 2
  /\ pdf[1].extractedData[1].pageNumber = 1
  /\ ~pdf[1].extractedData[1].success
  /\ pdf[1].extractedData[1].error = "Failed to process page"
  /\ pdf[1].extractedData[2].pageNumber = 3
  /\ pdf[1].extractedData[2].success
  /\ PageNumbersOf(SelectedImages(pdf[1])) = <<2>>

\* C3: whenever the comparator answers with a confidence, the compare-orders
\* route sets needsManualReview to TRUE exactly when that confidence is below
\* 0.8 (80 hundredths), so to FALSE at 0.8, whatever the model recommends.
C3_ManualReviewIffBelowThreshold ==
  (/\ apiReq.route = "compare-orders"
   /\ apiReq.key # ""
   /\ apiReq.order1.kind # "null" /\ apiReq.order2.kind # "null"
   /\ apiResp # <<>>
   /\ apiUp[1].kind = "ok")
  => /\ apiResp[1].status = 200
     /\ "needsManualReview" \in apiResp[1].body.keys
     /\ apiResp[1].body.needsManualReview <=> apiUp[1].comparison.overall_confidence < 80
     /\ apiUp[1].comparison.overall_confidence = 80 => ~apiResp[1].body.needsManualReview

\* The model recommends a review at a confidence of exactly 0.8 and the route
\* has answered.
C3_Witness ==
  /\ apiReq.route = "compare-orders"
  /\ apiResp # <<>>
  /\ apiResp[1].status = 200
  /\ apiUp[1].comparison.overall_confidence = 80
  /\ apiUp[1].comparison.recommendsReview
  /\ ~apiResp[1].body.needsManualReview

\* C6: for a conversion answer that lists N >= 1 files, the process-pdf route
\* answers success with N pages, page i numbered i and made from the i-th file.
C6_PagesNumberedOneToN ==
  (/\ apiReq.route = "process-pdf"
   /\ apiReq.hasFile
   /\ apiResp # <<>>
   /\ apiUp[1].kind = "ok"
   /\ Len(apiUp[1].Files) >= 1)
  => LET body == apiResp[1].body
         N == Len(apiUp[1].Files)
     IN  /\ apiResp[1].status = 200
         /\ "success" \in body.keys /\ body.success
         /\ Len(body.pages) = N
         /\ \A i \in 1..N :
              /\ body.pages[i].pageNumber = i
              /\ body.pages[i].imageDataUrl.payload = apiUp[1].Files[i].FileData

\* The route has answered a conversion of several pages.
C6_Witness ==
  /\ apiReq.route = "process-pdf"
  /\ apiResp # <<>>
  /\ apiResp[1].status = 200
  /\ Len(apiResp[1].body.pages) >= 2

\* C7: during a run the calls issued so far are for selected pages the loop
\* has reached, in ascending page order (a page whose image could not be read
\* gets no call); a call is issued only when every earlier one has come back,
\* so at most one is outstanding, and it is the call of the page the loop is
\* at; and the document stays processing to the end of the run, which keeps a
\* second run from starting.
C7_SequentialInPageOrder ==
  \A d \in Docs :
    LET r == run[d]
        reached == Len(r.results) + Cardinality(r.inflight)
    IN  /\ r.active => pdf[d].processing
        /\ Cardinality(r.inflight) <= 1
        /\ reached <= Len(r.selectedImages)
        /\ IsAscending(r.issued)
        /\ SeqRange(r.issued) \subseteq {r.selectedImages[i].pageNumber : i \in 1..reached}
        /\ Len(r.issued) <= reached
        /\ r.inflight # {} =>
             /\ r.inflight = {r.issued[Len(r.issued)]}
             /\ r.inflight = {r.selectedImages[Len(r.results) + 1].pageNumber}

\* Pages 1 and 3 are selected for the run; the call for page 3 is outstanding
\* after the call for page 1 came back.
C7_Witness ==
  /\ run[1].active
  /\ PageNumbersOf(run[1].selectedImages) = <<1, 3>>
  /\ Len(run[1].results) = 1
  /\ run[1].issued = <<1, 3>>
  /\ run[1].inflight = {3}

\* C8: a failed page does not end the run: while pages remain the run goes on,
\* it ends only with the entry of the last selected page, storing one entry
\* per selected page in order; each entry pushed is tagged with the page the
\* loop is at, whose call (if one was issued) came back; and a document whose
\* results hold a success beside failures passes the test that enables
\* comparison.
C8_FailureDoesNotAbort ==
  /\ [][\A d \in Docs :
          /\ (run[d].active /\ Len(run[d].results) + 1 < Len(run[d].selectedImages)) =>
               run'[d].active
          /\ (run[d].active /\ ~run'[d].active) =>
               /\ Len(run[d].results) + 1 = Len(run[d].selectedImages)
               /\ PageNumbersOf(pdf'[d].extractedData) = PageNumbersOf(run[d].selectedImages)
          /\ (run[d].active /\ run'[d].active /\ Len(run'[d].results) > Len(run[d].results)) =>
               LET e == run'[d].results[Len(run'[d].results)]
               IN  /\ Len(run'[d].results) = Len(run[d].results) + 1
                   /\ "pageNumber" \in e.keys
                   /\ e.pageNumber =
                        run[d].selectedImages[Len(run[d].results) + 1].pageNumber
                   /\ run[d].inflight \subseteq {e.pageNumber}]_vars
  /\ [](\A d \in Docs :
          LET res == pdf[d].extractedData
          IN  (\E i \in 1..Len(res) : "success" \in res[i].keys /\ res[i].success)
                => HasSuccess(pdf[d]))

\* A finished run over pages 1 and 3 of three: page 1 succeeded, the call for
\* page 3 was answered with a failure, and comparison is enabled for the
\* document.
C8_Witness ==
  /\ ~pdf[1].processing
  /\ Len(pdf[1].pageImages) = 3
  /\ Len(pdf[1].extractedData) = 2
  /\ pdf[1].extractedData[1].pageNumber = 1
  /\ pdf[1].extractedData[1].success
  /\ pdf[1].extractedData[2].pageNumber = 3
  /\ "success" \in pdf[1].extractedData[2].keys /\ ~pdf[1].extractedData[2].success
  /\ HasSuccess(pdf[1])

\* C4: compareOrders while a document has no successful result issues no
\* comparison call, and the step that shows its message leaves the comparing
\* flag, the comparison result and everything else as they were.
C4_CompareRejectedWithoutSuccess ==
  [][/\ alertMsg' = NotReadyToCompareAlert =>
          /\ ~HasSuccess(pdf[1]) \/ ~HasSuccess(pdf[2])
          /\ UNCHANGED <<pdf, conv, run, comparisonResult, comparing, cmpCall>>
     /\ (~HasSuccess(pdf[1]) \/ ~HasSuccess(pdf[2])) =>
          /\ cmpCall'.active => cmpCall' = cmpCall
          /\ comparing' => comparing]_vars

\* The message was shown while a comparison result is stored and document 2
\* has no successful result.
C4_Witness ==
  /\ alertMsg = NotReadyToCompareAlert
  /\ comparisonResult # <<>>
  /\ HasSuccess(pdf[1])
  /\ ~HasSuccess(pdf[2])

\* C5: a comparison that starts clears the stored result, the result stays
\* cleared while the call is awaited, and when the answer arrives the stored
\* result is that answer alone: a success about the two records of this call
\* with no error, or a failure with an error and no comparison.
C5_RecomparisonReplacesResult ==
  [][/\ (~cmpCall.active /\ cmpCall'.active) =>
          /\ comparisonResult' = <<>>
          /\ cmpCall'.replaces = (comparisonResult # <<>>)
     /\ (cmpCall.active /\ cmpCall'.active) => comparisonResult' = <<>>
     /\ (cmpCall.active /\ ~cmpCall'.active) =>
          /\ Len(comparisonResult') = 1
          /\ LET r == comparisonResult'[1]
             IN  \/ /\ "success" \in r.keys /\ r.success
                    /\ "comparison" \in r.keys /\ "error" \notin r.keys
                    /\ r.comparison.subject = <<cmpCall.order1, cmpCall.order2>>
                 \/ /\ ~r.success
                    /\ "error" \in r.keys /\ "comparison" \notin r.keys
                    /\ r.comparison = NoComparison]_vars

\* A comparison started while an earlier result was stored, and is awaited
\* with the result cleared.
C5_Witness ==
  /\ cmpCall.active
  /\ cmpCall.replaces
  /\ comparing
  /\ comparisonResult = <<>>

\* C9: the call a comparison issues carries, for each document, the record of
\* its lowest-index successful result.
C9_FirstSuccessIsCompared ==
  [][(~cmpCall.active /\ cmpCall'.active) =>
       \A d \in Docs :
         LET res == pdf[d].extractedData
             sent == IF d = 1 THEN cmpCall'.order1 ELSE cmpCall'.order2
         IN  \E i \in 1..Len(res) :
               /\ "success" \in res[i].keys /\ res[i].success
               /\ \A j \in 1..(i - 1) : ~("success" \in res[j].keys /\ res[j].success)
               /\ sent = res[i].data]_vars

\* An awaited comparison of document 1 holding two successes with different
\* records, the first of which was sent.
C9_Witness ==
  /\ cmpCall.active
  /\ Len(pdf[1].extractedData) = 2
  /\ pdf[1].extractedData[1].success /\ pdf[1].extractedData[2].success
  /\ pdf[1].extractedData[1].data # pdf[1].extractedData[2].data
  /\ cmpCall.order1 = pdf[1].extractedData[1].data

\* C10: while a comparison is awaited no step changes or cancels it, whatever
\* happens to the documents; its answer can always arrive, and the step that
\* ends it stores an outcome computed from the records read when it began.
C10_InFlightComparisonUnaffected ==
  /\ [][/\ (cmpCall.active /\ cmpCall'.active) => (cmpCall' = cmpCall /\ comparing')
        /\ (cmpCall.active /\ ~cmpCall'.active) =>
             /\ ~comparing'
             /\ Len(comparisonResult') = 1
             /\ comparisonResult'[1] \in
                  {ComparisonOutcome(out) : out \in CompareOutcomes(cmpCall.order1, cmpCall.order2)}
             /\ comparisonResult'[1].success =>
                  comparisonResult'[1].comparison.subject = <<cmpCall.order1, cmpCall.order2>>
             /\ UNCHANGED <<pdf, conv, run>>]_vars
  /\ [](cmpCall.active => ENABLED compareOrdersAnswer)

\* A comparison is awaited while document 1 has taken a new file and lost the
\* results the comparison was started from.
C10_Witness ==
  /\ cmpCall.active
  /\ pdf[1].loading
  /\ pdf[1].extractedData = <<>>
  /\ cmpCall.order1 # FirstSuccessData(pdf[1])

\* C11: a step that changes one document's session, awaiting uploads or run
\* leaves those of the other document as they were, and what a document's
\* operations need in order to act is a condition on that document alone,
\* whatever is in flight on the other.
C11_SessionsIndependent ==
  /\ [][\A d \in Docs :
          (pdf'[d] # pdf[d] \/ conv'[d] # conv[d] \/ run'[d] # run[d]) =>
            \A e \in Docs \ {d} :
              pdf'[e] = pdf[e] /\ conv'[e] = conv[e] /\ run'[e] = run[e]]_vars
  /\ [](\A d \in Docs :
          /\ Len(conv[d]) < MaxConversions => ENABLED processPdf(d, OnePagePdf)
          /\ conv[d] # <<>> => ENABLED processPdfAnswer(d, 1)
          /\ Len(pdf[d].pageImages) > 0 =>
               /\ ENABLED selectAllPages(d)
               /\ ENABLED deselectAllPages(d)
               /\ ENABLED togglePageSelection(d, 1)
          /\ ExtractEnabled(pdf[d]) => ENABLED processSelectedImages(d)
          /\ (run[d].active /\ run[d].inflight = {}) => ENABLED extractSubmit(d)
          /\ (run[d].active /\ run[d].inflight # {}) => ENABLED extractAnswer(d))

\* Document 1 awaits an extraction call while document 2, which took its file
\* and had its pages selected meanwhile, holds pages and awaits one too.
C11_Witness ==
  /\ run[1].active /\ run[1].inflight # {}
  /\ run[2].active /\ run[2].inflight # {}
  /\ pdf[1].processing /\ pdf[2].processing
  /\ Len(pdf[1].pageImages) = 1
  /\ Len(pdf[2].pageImages) = 1

\* C12: in every state the page images of a document are numbered 1..N in
\* the order of the source PDF's pages: the i-th image has page number i and,
\* when it carries image data, shows the i-th page of a file, so no two share
\* a number.
C12_PageNumbersUniqueInOrder ==
  \A d \in Docs :
    LET imgs == pdf[d].pageImages
    IN  /\ \A i \in 1..Len(imgs) :
             /\ imgs[i].pageNumber = i
             /\ imgs[i].imageDataUrl.payload # NoPayload =>
                  imgs[i].imageDataUrl.payload.page = i
        /\ \A i \in 1..Len(imgs) : \A j \in 1..Len(imgs) :
             i # j => imgs[i].pageNumber # imgs[j].pageNumber
        /\ IsAscending([i \in 1..Len(imgs) |-> imgs[i].pageNumber])

\* Document 1 holds the three pages of its file, the second of them selected.
C12_Witness ==
  /\ Len(pdf[1].pageImages) = 3
  /\ pdf[1].pageImages[2].selected
  /\ ~pdf[1].pageImages[1].selected
  /\ PageNumbersOf(pdf[1].pageImages) = <<1, 2, 3>>

\* C13: a comparison starts only while both documents hold a successful
\* result and neither is uploading (an upload awaited, loading set) nor
\* extracting (a run in flight, processing set).
C13_CompareOnlyWhenBothExtracted ==
  [][(~cmpCall.active /\ cmpCall'.active) =>
       \A d \in Docs :
         /\ HasSuccess(pdf[d])
         /\ ~pdf[d].loading /\ conv[d] = <<>>
         /\ ~pdf[d].processing /\ ~run[d].active]_vars

\* C14: whichever route is asked, when the credential of its external service
\* is not configured the answer has status 500 and no call was made to the
\* service.  Stated for conversion requests that carry a file: one without a
\* file is answered 400 before the credential is looked at.
C14_MissingCredentialIs500 ==
  (/\ apiResp # <<>>
   /\ apiReq.key = ""
   /\ apiReq.route = "process-pdf" => apiReq.hasFile) =>
    /\ apiResp[1].status = 500
    /\ apiResp[1].outbound = 0

\* C15: the compare-orders route answers with a failure, and has not called
\* the model, whenever one of the two records is absent or is the empty
\* record; and whenever its call to the model failed it answers with a failure
\* that carries an error.
C15_CompareFailsOnAbsentOrEmpty ==
  (apiReq.route = "compare-orders" /\ apiResp # <<>>) =>
    /\ (apiReq.order1.kind \in {"null", "empty"} \/ apiReq.order2.kind \in {"null", "empty"}) =>
         /\ apiResp[1].status # 200
         /\ ~IsSuccess(apiResp[1].body)
         /\ apiResp[1].outbound = 0
    /\ (apiResp[1].outbound = 1 /\ apiUp[1].kind = "error") =>
         /\ apiResp[1].status = 500
         /\ ~IsSuccess(apiResp[1].body)
         /\ "error" \in apiResp[1].body.keys

\* C16: every answer of the comparison route and of the two extraction routes
\* has a success member; success is true exactly when the payload (comparison
\* or data) is present, and false exactly when an error is present.
C16_ResponsesCarrySuccess ==
  (apiResp # <<>> /\ apiReq.route \in {"compare-orders", "extract-invoice", "extract-text"}) =>
    LET body == apiResp[1].body
        payload == IF apiReq.route = "compare-orders" THEN "comparison" ELSE "data"
    IN  /\ "success" \in body.keys
        /\ body.success \in BOOLEAN
        /\ body.success <=> payload \in body.keys
        /\ ~body.success <=> "error" \in body.keys

\* C17: the process-pdf route answers with a failure, never with success and
\* never with pages, when the request has no file, when its file is not of
\* PDF type, when the conversion service answered with a non-success status,
\* and when the service's answer has no list of files.
C17_ConversionFailureCases ==
  (/\ apiReq.route = "process-pdf"
   /\ apiResp # <<>>
   /\ \/ ~apiReq.hasFile
      \/ apiReq.file.type # PdfType
      \/ apiResp[1].outbound = 1 /\ apiUp[1].kind \in {"status", "nofiles"}) =>
    /\ apiResp[1].status # 200
    /\ ~IsSuccess(apiResp[1].body)
    /\ "pages" \notin apiResp[1].body.keys
    /\ apiResp[1].body.pages = <<>>

C20_FileSelectionStartsUpload ==
  [][\A d \in Docs :
       Len(conv'[d]) > Len(conv[d]) =>
         LET f == conv'[d][Len(conv'[d])]
         IN  /\ f.type = PdfType
             /\ conv'[d] = Append(conv[d], f)
             /\ pdf'[d].file = f
             /\ pdf'[d].loading
             /\ pdf'[d].pageImages = <<>>
             /\ pdf'[d].extractedData = <<>>
             /\ pdf'[d].processing = pdf[d].processing]_vars

\* Document 1 has taken the one-page PDF and awaits its upload, with no pages
\* and no results, while a run over pages of its previous file, the long PDF,
\* is still in flight.
C20_Witness ==
  /\ pdf[1].file = OnePagePdf
  /\ pdf[1].loading
  /\ conv[1] = <<OnePagePdf>>
  /\ pdf[1].pageImages = <<>>
  /\ pdf[1].extractedData = <<>>
  /\ run[1].active
  /\ run[1].selectedImages[1].imageDataUrl.payload.file = LongPdf.name

\* C21: the step in which a successful conversion answer arrives leaves the
\* document with exactly the pages the service returned for the answered
\* file, in order, every one unselected, and with loading cleared; its file, its results and its
\* processing flag are as before.
C21_ConversionSuccessPopulatesPages ==
  [][\A d \in Docs :
       (Len(conv'[d]) < Len(conv[d]) /\ alertMsg' = "") =>
         \E k \in 1..Len(conv[d]) :
           LET f == conv[d][k]
           IN  /\ conv'[d] = RemoveAt(conv[d], k)
               /\ \E up \in ConvertAnswers(f) :
                    /\ up.kind = "ok"
                    /\ Len(pdf'[d].pageImages) = Len(up.Files)
                    /\ Len(up.Files) = PageCount(f)
                    /\ \A i \in 1..Len(up.Files) :
                         /\ pdf'[d].pageImages[i].pageNumber = i
                         /\ pdf'[d].pageImages[i].imageDataUrl.payload = up.Files[i].FileData
                         /\ ~pdf'[d].pageImages[i].selected
               /\ ~pdf'[d].loading
               /\ pdf'[d].file = pdf[d].file
               /\ pdf'[d].extractedData = pdf[d].extractedData
               /\ pdf'[d].processing = pdf[d].processing]_vars

\* The pages of the long PDF have arrived, all unselected, while a run over the
\* page of the document's previous file is still in flight.
C21_Witness ==
  /\ pdf[1].file = LongPdf
  /\ ~pdf[1].loading
  /\ conv[1] = <<>>
  /\ Len(pdf[1].pageImages) = PageCount(LongPdf)
  /\ \A i \in 1..Len(pdf[1].pageImages) : ~pdf[1].pageImages[i].selected
  /\ run[1].active
  /\ run[1].selectedImages[1].imageDataUrl.payload.file = OnePagePdf.name

\* C22: the step in which a conversion fails (a failure answer or a rejected
\* call) shows the alert and leaves the document empty: loading cleared, no
\* page images, no extraction results, and the file still the one selected.
C22_ConversionFailureEmptiesSession ==
  [][\A d \in Docs :
       (Len(conv'[d]) < Len(conv[d]) /\ alertMsg' = ProcessingErrorAlert) =>
         /\ ~pdf'[d].loading
         /\ pdf'[d].pageImages = <<>>
         /\ pdf'[d].extractedData = <<>>
         /\ pdf'[d].file = pdf[d].file
         /\ pdf'[d].file.type = PdfType]_vars

\* C27: in every state, every successful entry of a document's extraction
\* results holds a record read from a page of the file the document holds.
C27_ResultsFromCurrentFile ==
  \A d \in Docs :
    \A i \in 1..Len(pdf[d].extractedData) :
      LET e == pdf[d].extractedData[i]
      IN  IsSuccess(e) =>
            /\ e.data.kind = "record"
            /\ e.data.file = pdf[d].file.name
            /\ e.data.page = e.pageNumber

\* C23: a toggle of a page, Select All and None change nothing but selection
\* flags: the document keeps its pages in their order with their numbers and
\* images, its file, loading, processing and results; no upload and no
\* extraction call is issued and no run starts or moves.
C23_SelectionChangesOnlyFlags ==
  [][\A d \in Docs :
       (\/ \E n \in 1..MaxPages : togglePageSelection(d, n)
        \/ selectAllPages(d)
        \/ deselectAllPages(d)) =>
         /\ Len(pdf'[d].pageImages) = Len(pdf[d].pageImages)
         /\ \A i \in 1..Len(pdf[d].pageImages) :
              /\ pdf'[d].pageImages[i].pageNumber = pdf[d].pageImages[i].pageNumber
              /\ pdf'[d].pageImages[i].imageDataUrl = pdf[d].pageImages[i].imageDataUrl
         /\ pdf'[d].file = pdf[d].file
         /\ pdf'[d].loading = pdf[d].loading
         /\ pdf'[d].processing = pdf[d].processing
         /\ pdf'[d].extractedData = pdf[d].extractedData
         /\ UNCHANGED <<conv, run, comparisonResult, comparing, cmpCall>>]_vars

\* Document 1 holds the result of page 1, is not processing, and its selection
\* has since been changed to pages 2 and 3.
C23_Witness ==
  /\ ~pdf[1].processing
  /\ ~run[1].active
  /\ Len(pdf[1].pageImages) = 3
  /\ PageNumbersOf(pdf[1].extractedData) = <<1>>
  /\ PageNumbersOf(SelectedImages(pdf[1])) = <<2, 3>>

\* C24: while a run goes on, the steps of the run (a call issued, an answer
\* pushed) leave the document's stored results as they were; the step that
\* ends the run replaces them by the entries of this run alone: the entries
\* pushed so far followed by the last one, one per page selected for the run.
C24_ResultsReplacedOnceAtEnd ==
  [][\A d \in Docs :
       /\ (run[d].active /\ run'[d].active /\ run'[d] # run[d]) =>
            pdf'[d] = pdf[d]
       /\ (run[d].active /\ ~run'[d].active) =>
            LET res == pdf'[d].extractedData
                n == Len(run[d].selectedImages)
            IN  /\ Len(res) = n
                /\ SubSeq(res, 1, n - 1) = run[d].results
                /\ \A i \in 1..n : res[i].pageNumber = run[d].selectedImages[i].pageNumber
                /\ ~pdf'[d].processing]_vars

\* A second run is under way: its first entry, for page 2, is pushed, while the
\* document still stores the one result of the previous run, for page 1.
C24_Witness ==
  /\ run[1].active
  /\ pdf[1].processing
  /\ PageNumbersOf(run[1].results) = <<2>>
  /\ Len(run[1].selectedImages) = 2
  /\ PageNumbersOf(pdf[1].extractedData) = <<1>>

\* C25: a document is processing exactly while its run is in flight and its
\* Extract control is disabled then, so no second run starts; comparing is
\* set exactly while a comparison is awaited and the Compare control is
\* disabled then; and a run or comparison in flight is never dropped or
\* restarted: a run only advances over the pages it took and ends with one
\* entry for each, a comparison only ends with an outcome stored.
C25_OneOperationInFlight ==
  /\ [](\A d \in Docs :
          /\ run[d].active <=> pdf[d].processing
          /\ pdf[d].processing => ~ExtractEnabled(pdf[d])
          /\ Cardinality(run[d].inflight) <= 1)
  /\ []((cmpCall.active <=> comparing) /\ (comparing => ~CompareEnabled))
  /\ [][/\ \A d \in Docs :
            /\ (~run[d].active /\ run'[d].active) => ~pdf[d].processing
            /\ (run[d].active /\ run'[d] # run[d]) =>
                 \/ /\ run'[d].active
                    /\ run'[d].selectedImages = run[d].selectedImages
                    /\ Len(run'[d].issued) >= Len(run[d].issued)
                    /\ Len(run'[d].results) >= Len(run[d].results)
                    /\ Len(run'[d].issued) + Len(run'[d].results)
                         = Len(run[d].issued) + Len(run[d].results) + 1
                 \/ /\ ~run'[d].active
                    /\ Len(run[d].results) + 1 = Len(run[d].selectedImages)
                    /\ Len(pdf'[d].extractedData) = Len(run[d].selectedImages)
        /\ (~cmpCall.active /\ cmpCall'.active) => ~comparing
        /\ cmpCall.active =>
             \/ cmpCall' = cmpCall
             \/ ~cmpCall'.active /\ comparisonResult' # <<>>]_vars

\* A run of document 1 and a comparison are both in flight; document 1 has
\* pages selected and both documents hold a success, so the two controls are
\* disabled by the processing and comparing flags alone.
C25_Witness ==
  /\ run[1].active /\ run[1].inflight # {}
  /\ pdf[1].processing
  /\ SelectedImages(pdf[1]) # <<>>
  /\ cmpCall.active /\ comparing
  /\ HasSuccess(pdf[1]) /\ HasSuccess(pdf[2])

\* C26: provided every issued call comes back, every started operation ends
\* with its flag cleared.  Each operation in flight ends: a document is again
\* and again not loading (so a loading document leads to one that is not),
\* again and again has fewer than MaxConversions uploads awaited, whatever
\* files are picked meanwhile, and, unless files keep being picked for it
\* without end, comes to rest with no upload awaited and loading cleared; a
\* run in flight and an awaited comparison are again and again over.  And
\* each ends as it should: the step that ends an upload leaves loading
\* cleared, the step that ends a run leaves processing cleared and the
\* results stored, the step that ends a comparison leaves comparing cleared
\* and an outcome stored.
C26_OperationsTerminate ==
  /\ \A d \in Docs : []<>(~pdf[d].loading)
  /\ \A d \in Docs : []<>(Len(conv[d]) < MaxConversions)
  /\ \A d \in Docs :
       \/ []<><<processPdf(d, OnePagePdf)>>_vars
       \/ <>[](conv[d] = <<>> /\ ~pdf[d].loading)
  /\ \A d \in Docs : []<>(~run[d].active)
  /\ []<>(~cmpCall.active)
  /\ [][/\ \A d \in Docs :
            /\ Len(conv'[d]) < Len(conv[d]) => ~pdf'[d].loading
            /\ (run[d].active /\ ~run'[d].active) =>
                 (~pdf'[d].processing /\ pdf'[d].extractedData # <<>>)
        /\ (cmpCall.active /\ ~cmpCall'.active) =>
             (~comparing' /\ comparisonResult' # <<>>)]_vars

\* An upload of document 1, a run started on its earlier pages and a
\* comparison are awaited at the same time, and so is an upload of
\* document 2.
C26_Witness ==
  /\ conv[1] # <<>> /\ pdf[1].loading
  /\ conv[2] # <<>> /\ pdf[2].loading
  /\ run[1].active /\ pdf[1].processing
  /\ cmpCall.active /\ comparing

\* C28: once no upload of a document is awaited, the page images it shows
\* were converted from the file held in its file field.
C28_PagesFromLatestFile ==
  \A d \in Docs :
    conv[d] = <<>> =>
      \A i \in 1..Len(pdf[d].pageImages) :
        pdf[d].pageImages[i].imageDataUrl.payload # NoPayload =>
          pdf[d].pageImages[i].imageDataUrl.payload.file = pdf[d].file.name

\* C29: a step changes the stored comparison outcome or the comparing flag
\* only as a step of compareOrders (its start or its answer), and such a step
\* changes neither document, no awaited upload and no run; so every step of
\* file selection, conversion, page selection or extraction leaves the
\* comparison state as it was, and an outcome outlives the results it was
\* computed from.
C29_OnlyCompareOrdersChangesComparison ==
  [][ (comparisonResult' # comparisonResult \/ comparing' # comparing) =>
        /\ compareOrders \/ compareOrdersAnswer
        /\ UNCHANGED <<pdf, conv, run>>
    ]_vars

\* A comparison outcome is stored, no comparison is awaited, and the results
\* of document 1 it was computed from have been cleared by a new file.
C29_Witness ==
  /\ comparisonResult # <<>> /\ ~comparing /\ ~cmpCall.active
  /\ pdf[1].extractedData = <<>> /\ pdf[1].loading
  /\ pdf[2].extractedData # <<>>

\* C30: for the page list of every document state: toggling page n gives a
\* list of the same pages where the flag of the page numbered n is negated
\* and every other flag is kept; toggling n twice gives the list back;
\* select-all (deselect-all) gives every flag TRUE (FALSE), whatever the flags
\* were, and applying it again changes nothing.
C30_SelectionLaws ==
  \A d \in Docs :
    LET imgs == pdf[d].pageImages
    IN  /\ \A n \in 1..MaxPages :
              LET t == TogglePages(imgs, n)
              IN  /\ Len(t) = Len(imgs)
                  /\ \A i \in 1..Len(imgs) :
                        /\ t[i].pageNumber = imgs[i].pageNumber
                        /\ t[i].imageDataUrl = imgs[i].imageDataUrl
                        /\ t[i].selected =
                             IF imgs[i].pageNumber = n THEN ~imgs[i].selected
                                                       ELSE imgs[i].selected
                  /\ TogglePages(t, n) = imgs
        /\ \A v \in BOOLEAN :
              LET a == SetAllPages(imgs, v)
              IN  /\ Len(a) = Len(imgs)
                  /\ \A i \in 1..Len(imgs) : a[i].selected = v
                  /\ SetAllPages(a, v) = a

\* Several pages are shown and exactly the second is selected, a selection
\* only a toggle produces.
C30_Witness ==
  /\ Len(pdf[1].pageImages) > 2
  /\ \A i \in 1..Len(pdf[1].pageImages) : pdf[1].pageImages[i].selected <=> (i = 2)

\* C31: a file whose type is not PDF is turned away before any upload: the
\* step that shows the invalid-file alert issues no conversion call and
\* leaves the document session (file, page images, results, loading) as it
\* was; every conversion call that is issued carries a PDF, and the file a
\* session holds is never of another type.
C31_NonPdfRejectedOnClient ==
  /\ [][ /\ alertMsg' = InvalidPdfAlert => UNCHANGED <<pdf, conv>>
         /\ \A d \in Docs :
               Len(conv'[d]) > Len(conv[d]) =>
                 /\ conv'[d][Len(conv'[d])].type = PdfType
                 /\ pdf'[d].file.type = PdfType
       ]_vars
  /\ [](\A d \in Docs :
          /\ pdf[d].file.type \in {"", PdfType}
          /\ \A k \in 1..Len(conv[d]) : conv[d][k].type = PdfType)

\* The invalid-file alert is shown while the session holds a PDF, its page
\* images and its extraction results.
C31_Witness ==
  /\ alertMsg = InvalidPdfAlert
  /\ pdf[1].file.type = PdfType
  /\ pdf[1].pageImages # <<>>
  /\ pdf[1].extractedData # <<>>

====
